---------------------------- MODULE Spec2Model ----------------------------
(***************************************************************************)
(* safe-transmute: reinterpretation of byte buffers as typed buffers and   *)
(* back.  The library is stateless; the state below is that of a caller    *)
(* holding a memory arena, a target type, at most one owned buffer and the *)
(* allocator's record of the allocation behind it.  Every call of the      *)
(* library is one action; `log` holds the last two calls and their results.*)
(***************************************************************************)
EXTENDS Integers, Naturals, Sequences, FiniteSets, TLC

\* ------------------------------------------------------------------ bounds
\* Number of addressable bytes of the arena.
MemSize == 8
\* Largest element size (size_of::<T>()) of a target type.
MaxSize == 4
\* Most bytes the caller stores through one wrapper's mutable view.
MaxWrites == 2

\* ------------------------------------------------------------------ memory
\* The arena's addresses; they do not start at 0 (no null pointers).
Addrs == MemSize .. (2 * MemSize - 1)
ArenaEnd == 2 * MemSize
Byte == 0 .. 255
\* The arena's contents: every byte different from the others (its offset),
\* or every byte the same.  No call looks at a byte's value, so bytes that
\* are all different tell apart any two places a result could come from.
Memories == {[a \in Addrs |-> a - MemSize], [a \in Addrs |-> MemSize]}
\* What a read outside the arena yields.
Poison == 0 - 1

\* Target types: (size_of, align_of); a Rust type's size is a multiple of
\* its alignment, and alignments are powers of two.
Aligns == {1, 2, 4}
Types == {t \in [size : 1 .. MaxSize, align : Aligns] : t.size % t.align = 0}
U8 == [size |-> 1, align |-> 1]

size_of(t) == t.size
align_of(t) == t.align

VARIABLES mem, T, heap, vec, aligned, written, log, pc
vars == <<mem, T, heap, vec, aligned, written, log, pc>>

\* One byte of memory.
Load(m, a) == IF a \in DOMAIN m THEN m[a] ELSE Poison
\* The n bytes of memory from address p on, in order.
Bytes(m, p, n) == [i \in 1 .. n |-> Load(m, p + i - 1)]
\* The addresses of n bytes from address p on.
Range(p, n) == p .. (p + n - 1)

\* A borrowed slice: core::slice::from_raw_parts(ptr, len).
from_raw_parts(ptr, len) == [ptr |-> ptr, len |-> len]
\* A borrowed byte slice's contents.
SliceBytes(m, s) == Bytes(m, s.ptr, s.len)
\* Element i (from 0) of a slice of t: the size_of(t) bytes it covers.
Index(m, s, t, i) == Bytes(m, s.ptr + i * size_of(t), size_of(t))
\* All the bytes a slice of t covers.
TypedBytes(m, s, t) == Bytes(m, s.ptr, s.len * size_of(t))

\* ------------------------------------------------------------------ errors
Ok(v) == [ok |-> TRUE, val |-> v]
Err(e) == [ok |-> FALSE, err |-> e]
Unit == "()"
UnalignedError(offset) == [tag |-> "Unaligned", offset |-> offset]
GuardError(required, actual, reason) ==
    [tag |-> "Guard", required |-> required, actual |-> actual, reason |-> reason]
\* Result::expect: the value, or a panic.
Panic == [panic |-> TRUE]
expect(r) == IF r = Panic THEN Panic ELSE IF r.ok THEN r.val ELSE Panic

\* ------------------------------------------------------------------ guards
\* Guard::check::<T>(bytes) for each policy, as a function of the byte count
\* and the element size.
PermissiveGuard(len, size) == Ok(Unit)

\* The rejection of a target type of size zero.
ZeroSizeReject(len) ==
    Err(GuardError(0, len, IF len > 0 THEN "ExcessBytes" ELSE "NotEnoughBytes"))

SingleManyGuard(len, size) ==
    IF size = 0 THEN ZeroSizeReject(len) ELSE
    IF len < size
    THEN Err(GuardError(size, len, "NotEnoughBytes"))
    ELSE Ok(Unit)

SingleValueGuard(len, size) ==
    IF size = 0 THEN ZeroSizeReject(len) ELSE
    IF len = size
    THEN Ok(Unit)
    ELSE Err(GuardError(size, len,
                        IF len < size THEN "NotEnoughBytes" ELSE "ExcessBytes"))

AllOrNothingGuard(len, size) ==
    IF size = 0 THEN ZeroSizeReject(len) ELSE
    IF len < size
    THEN Err(GuardError(size, len, "NotEnoughBytes"))
    ELSE IF len % size # 0
         THEN Err(GuardError((len \div size) * size, len, "ExcessBytes"))
         ELSE Ok(Unit)

Guards == {"Permissive", "SingleMany", "SingleValue", "AllOrNothing"}

check(G, len, size) ==
    CASE G = "Permissive" -> PermissiveGuard(len, size)
      [] G = "SingleMany" -> SingleManyGuard(len, size)
      [] G = "SingleValue" -> SingleValueGuard(len, size)
      [] G = "AllOrNothing" -> AllOrNothingGuard(len, size)

\* --------------------------------------------------------------- alignment
\* check_alignment_ptr without the reversal of the offset.
check_alignment_ptr_reported_insert(ptr, U) ==
    LET offset == ptr % align_of(U)
    IN  IF offset > 0 THEN Err(UnalignedError(offset)) ELSE Ok(Unit)

check_alignment_ptr(ptr, U) ==
    LET offset == ptr % align_of(U)
    IN  IF offset > 0
        THEN Err(UnalignedError(size_of(U) - offset))
        ELSE Ok(Unit)

check_alignment(data, U) == check_alignment_ptr(data.ptr, U)

check_alignment_one(addr, U) == check_alignment_ptr(addr, U)

\* util::check_align: Error::Unaligned{offset} when v does not start at an
\* address aligned for t.
Unaligned(offset) == [tag |-> "Error::Unaligned", offset |-> offset]

check_align(v, t) ==
    LET align_offset == v.ptr % align_of(t)
    IN  IF align_offset # 0
        THEN Err(Unaligned(align_of(t) - align_offset))
        ELSE Ok(Unit)

\* ----------------------------------------------------- Aligned (align.rs)
\* Aligned<T, U>(T, PhantomData<U>): the wrapped reference x and the target
\* type.
Aligned(x, U) == [inner |-> x, U |-> U]
NoAligned == [inner |-> from_raw_parts(0, 0), U |-> U8]

\* check_slice without its alignment check.
check_slice_without_check(x, U) == Ok(Aligned(x, U))

check_slice(x, U) ==
    LET r == check_alignment(x, U)
    IN  IF ~r.ok THEN r ELSE Ok(Aligned(x, U))

into_inner(self) == self.inner

deref(self) == self.inner

deref_mut(self) == self.inner

\* The safety precondition of the reinterpreting calls: the start of the
\* data is aligned for the target type.
IsAligned(ptr, t) == ptr % align_of(t) = 0

\* ------------------------------------------------- bytes to typed (base.rs)
\* The value read by from_raw_parts(ptr as *const T, 1)[0], with the
\* addresses the read touches.
read_one(m, bytes, t) ==
    [value |-> Index(m, from_raw_parts(bytes.ptr, 1), t, 0),
     touched |-> Range(bytes.ptr, 1 * size_of(t))]

\* from_bytes without its length check.
from_bytes_unguarded(m, bytes, t) == Ok(read_one(m, bytes, t))

from_bytes(m, bytes, t) ==
    LET g == SingleManyGuard(bytes.len, size_of(t))
    IN  IF ~g.ok THEN g ELSE Ok(read_one(m, bytes, t))

\* from_bytes_pedantic with from_bytes's guard.
from_bytes_pedantic_at_least(m, bytes, t) == from_bytes(m, bytes, t)

from_bytes_pedantic(m, bytes, t) ==
    LET g == SingleValueGuard(bytes.len, size_of(t))
    IN  IF ~g.ok THEN g ELSE Ok(read_one(m, bytes, t))

\* transmute_many with the byte count as the element count.
transmute_many_len_in_bytes(bytes, t, G) ==
    LET g == check(G, bytes.len, size_of(t))
    IN  IF ~g.ok THEN g ELSE Ok(from_raw_parts(bytes.ptr, bytes.len))

\* A division by zero panics.
transmute_many(bytes, t, G) ==
    LET g == check(G, bytes.len, size_of(t))
    IN  IF ~g.ok
        THEN g
        ELSE IF size_of(t) = 0
             THEN Panic
             ELSE Ok(from_raw_parts(bytes.ptr, bytes.len \div size_of(t)))

transmute_many_permissive(bytes, t) ==
    expect(transmute_many(bytes, t, "Permissive"))

\* pod.rs: transmute_many for a target type that any bytes are a value of.
transmute_pod_many(bytes, t, G) == transmute_many(bytes, t, G)

safe_transmute_many(self, G) == transmute_pod_many(deref(self), self.U, G)

safe_transmute_many_permissive(self) ==
    expect(transmute_pod_many(deref(self), self.U, "Permissive"))

\* An owned buffer: Vec::from_raw_parts(ptr as *mut elem, len, capacity).
Vec_from_raw_parts(elem, ptr, len, cap) ==
    [elem |-> elem, ptr |-> ptr, len |-> len, cap |-> cap]
NoVec == [elem |-> U8, ptr |-> 0, len |-> 0, cap |-> 0 - 1]

\* The owned conversions return their result and the buffers that went out
\* of scope inside the call without being forgotten (and so were dropped).

\* transmute_vec with the length taken from the capacity.
transmute_vec_len_from_capacity(bytes, t, G) ==
    LET g == check(G, bytes.len, size_of(t))
    IN  IF ~g.ok
        THEN [res |-> g, dropped |-> <<bytes>>]
        ELSE LET ptr == bytes.ptr
                 capacity == bytes.cap \div size_of(t)
                 len == bytes.cap \div size_of(t)
             IN  [res |-> Ok(Vec_from_raw_parts(t, ptr, len, capacity)),
                  dropped |-> <<>>]

\* transmute_vec building the typed buffer before the guard's check, so that
\* a rejection drops both buffers.
transmute_vec_build_first(bytes, t, G) ==
    LET g == check(G, bytes.len, size_of(t))
        ptr == bytes.ptr
        capacity == bytes.cap \div size_of(t)
        len == bytes.len \div size_of(t)
        built == Vec_from_raw_parts(t, ptr, len, capacity)
    IN  IF ~g.ok
        THEN [res |-> g, dropped |-> <<bytes, built>>]
        ELSE [res |-> Ok(built), dropped |-> <<>>]

\* transmute_vec with the capacity rounded up to whole elements.
transmute_vec_capacity_rounded_up(bytes, t, G) ==
    LET g == check(G, bytes.len, size_of(t))
    IN  IF ~g.ok
        THEN [res |-> g, dropped |-> <<bytes>>]
        ELSE LET ptr == bytes.ptr
                 capacity == (bytes.cap + size_of(t) - 1) \div size_of(t)
                 len == bytes.len \div size_of(t)
             IN  [res |-> Ok(Vec_from_raw_parts(t, ptr, len, capacity)),
                  dropped |-> <<>>]

\* A division by zero panics before forget(bytes), and the unwinding drops
\* bytes.
transmute_vec(bytes, t, G) ==
    LET g == check(G, bytes.len, size_of(t))
    IN  IF ~g.ok
        THEN [res |-> g, dropped |-> <<bytes>>]
        ELSE IF size_of(t) = 0
        THEN [res |-> Panic, dropped |-> <<bytes>>]
        ELSE LET ptr == bytes.ptr
                 capacity == bytes.cap \div size_of(t)
                 len == bytes.len \div size_of(t)
             IN  [res |-> Ok(Vec_from_raw_parts(t, ptr, len, capacity)),
                  dropped |-> <<>>]

transmute_vec_permissive(bytes, t) ==
    LET r == transmute_vec(bytes, t, "Permissive")
    IN  [res |-> expect(r.res), dropped |-> r.dropped]

\* ---------------------------------------------- typed to bytes (to_bytes.rs)
\* `from` is the address of the referenced value.
\* transmute_to_bytes_unchecked with align_of for size_of.
transmute_to_bytes_unchecked_align_len(from, t) == from_raw_parts(from, align_of(t))

transmute_to_bytes_unchecked(from, t) == from_raw_parts(from, size_of(t))

\* transmute_to_bytes_many_unchecked with the element count as the byte count.
transmute_to_bytes_many_unchecked_len_in_elements(from, t) ==
    from_raw_parts(from.ptr, from.len)

transmute_to_bytes_many_unchecked(from, t) ==
    from_raw_parts(from.ptr, from.len * size_of(t))

transmute_one_to_bytes(from, t) == transmute_to_bytes_unchecked(from, t)

transmute_to_bytes(from, t) == transmute_to_bytes_many_unchecked(from, t)

\* transmute_to_bytes_vec with the capacity taken from the length.
transmute_to_bytes_vec_capacity_from_len(from) ==
    LET capacity == from.len * size_of(from.elem)
        len == from.len * size_of(from.elem)
        ptr == from.ptr
    IN  [res |-> Vec_from_raw_parts(U8, ptr, len, capacity), dropped |-> <<>>]

\* transmute_to_bytes_vec without forget(from).
transmute_to_bytes_vec_no_forget(from) ==
    LET capacity == from.cap * size_of(from.elem)
        len == from.len * size_of(from.elem)
        ptr == from.ptr
    IN  [res |-> Vec_from_raw_parts(U8, ptr, len, capacity), dropped |-> <<from>>]

transmute_to_bytes_vec(from) ==
    LET capacity == from.cap * size_of(from.elem)
        len == from.len * size_of(from.elem)
        ptr == from.ptr
    IN  [res |-> Vec_from_raw_parts(U8, ptr, len, capacity), dropped |-> <<>>]

\* -------------------------------------------------------- floats (util.rs)
\* An unsigned word is the set of the positions of its 1 bits (bit 0 is the
\* least significant), so that & is intersection and | is union.
\* The word written 0x... with the given hexadecimal digits.
Hex(digits) ==
    {i \in 0 .. (4 * Len(digits) - 1) :
        (digits[Len(digits) - (i \div 4)] \div (2 ^ (i % 4))) % 2 = 1}

EXP_MASK_u32 == Hex(<<7, 15, 8, 0, 0, 0, 0, 0>>)
QNAN_MASK_u32 == Hex(<<0, 0, 4, 0, 0, 0, 0, 0>>)
FRACT_MASK_u32 == Hex(<<0, 0, 7, 15, 15, 15, 15, 15>>)

\* designalise_f32 without the test of the fraction.
designalise_f32_any_fraction(f) ==
    IF f \cap EXP_MASK_u32 = EXP_MASK_u32
    THEN f \cup QNAN_MASK_u32
    ELSE f

designalise_f32(f) ==
    IF f \cap EXP_MASK_u32 = EXP_MASK_u32 /\ f \cap FRACT_MASK_u32 # {}
    THEN f \cup QNAN_MASK_u32
    ELSE f

EXP_MASK_u64 == Hex(<<7, 15, 15, 0, 0, 0, 0, 0, 0, 0, 0, 0, 0, 0, 0, 0>>)
QNAN_MASK_u64 == Hex(<<0, 0, 0, 1, 0, 0, 0, 0, 0, 0, 0, 0, 0, 0, 0, 0>>)
FRACT_MASK_u64 == Hex(<<0, 0, 0, 15, 15, 15, 15, 15, 15, 15, 15, 15, 15, 15, 15, 15>>)

designalise_f64(f) ==
    IF f \cap EXP_MASK_u64 = EXP_MASK_u64 /\ f \cap FRACT_MASK_u64 # {}
    THEN f \cup QNAN_MASK_u64
    ELSE f

\* --------------------------------------------------------------- allocator
Layout(size, align) == [size |-> size, align |-> align]
NoAlloc == [live |-> FALSE, ptr |-> 0, layout |-> Layout(0, 1), freed |-> <<>>]
Alloc(ptr, layout) ==
    [live |-> layout.size > 0, ptr |-> ptr, layout |-> layout, freed |-> <<>>]
\* Dropping an owned buffer releases capacity * size_of(elem) bytes with the
\* element's alignment; a buffer of no capacity holds no allocation.
DropVec(h, v) ==
    IF v.cap * size_of(v.elem) > 0
    THEN [h EXCEPT !.live = FALSE,
                   !.freed = Append(@, Layout(v.cap * size_of(v.elem),
                                              align_of(v.elem)))]
    ELSE h
RECURSIVE DropAll(_, _)
DropAll(h, vs) ==
    IF vs = <<>> THEN h ELSE DropAll(DropVec(h, Head(vs)), Tail(vs))

\* tests/test_util/aligned_vec.rs: an owned byte buffer of len bytes in an
\* allocation made for `capacity` elements of t.
aligned_vec_capacity(len, t) ==
    LET vec_len_offset == len % size_of(t)
        vec_len == len \div size_of(t)
    IN  IF vec_len_offset > 0 THEN vec_len + 1 ELSE vec_len

\* ------------------------------------------------------------------ caller
Slices == {s \in [ptr : Addrs, len : 0 .. MemSize] : s.ptr + s.len <= ArenaEnd}
Call(op, arg, res) == [op |-> op, arg |-> arg, res |-> res]
Last(s) == s[Len(s)]
\* The log after a call: the call before it, and the call.
Logged(call) == IF log = <<>> THEN <<call>> ELSE <<Last(log), call>>

Init ==
    /\ mem \in Memories
    /\ T \in Types
    /\ heap = NoAlloc
    /\ vec = NoVec
    /\ aligned = NoAligned
    /\ written = {}
    /\ log = <<>>
    /\ pc = "start"

\* The byte view a borrowed call may be given: any slice of the arena, or
\* the view the previous call returned.
Inputs ==
    CASE pc = "start" -> Slices
      [] pc = "view" -> {Last(log).res}
      [] OTHER -> {}

Borrowed(call, next) ==
    /\ log' = Logged(call)
    /\ pc' = next
    /\ UNCHANGED <<mem, T, heap, vec, aligned, written>>

CheckAlignment ==
    /\ pc = "start"
    /\ \E s \in Slices :
        /\ Borrowed(Call("check_alignment", s, check_alignment(s, T)), "done")

CheckAlign ==
    /\ pc = "start"
    /\ \E v \in Slices :
        /\ Borrowed(Call("check_align", v, check_align(v, T)), "done")

CheckAlignmentOne ==
    /\ pc = "start"
    /\ \E a \in Addrs :
        /\ Borrowed(Call("check_alignment_one", a, check_alignment_one(a, T)), "done")

FromBytes ==
    \E s \in Inputs :
        /\ IsAligned(s.ptr, T)
        /\ Borrowed(Call("from_bytes", s, from_bytes(mem, s, T)), "done")

FromBytesPedantic ==
    \E s \in Inputs :
        /\ IsAligned(s.ptr, T)
        /\ Borrowed(Call("from_bytes_pedantic", s, from_bytes_pedantic(mem, s, T)), "done")

TransmuteMany ==
    \E s \in Inputs, G \in Guards :
        /\ IsAligned(s.ptr, T)
        /\ Borrowed([op |-> "transmute_many", arg |-> s, guard |-> G,
                     res |-> transmute_many(s, T, G)], "done")

TransmuteManyPermissive ==
    \E s \in Inputs :
        /\ IsAligned(s.ptr, T)
        /\ Borrowed(Call("transmute_many_permissive", s,
                         transmute_many_permissive(s, T)), "done")

\* A reference to a value of T: aligned, and the value lies in the arena.
Refs == {a \in Addrs : IsAligned(a, T) /\ a + size_of(T) <= ArenaEnd}
\* A slice of T: aligned, and its elements lie in the arena.
TypedSlices ==
    {s \in [ptr : Addrs, len : 0 .. MemSize] :
        IsAligned(s.ptr, T) /\ s.ptr + s.len * size_of(T) <= ArenaEnd}

TransmuteToBytesUnchecked ==
    /\ pc = "start"
    /\ \E a \in Refs :
        /\ Borrowed(Call("transmute_to_bytes_unchecked", a,
                         transmute_to_bytes_unchecked(a, T)), "view")

TransmuteOneToBytes ==
    /\ pc = "start"
    /\ \E a \in Refs :
        /\ Borrowed(Call("transmute_one_to_bytes", a,
                         transmute_one_to_bytes(a, T)), "view")

TransmuteToBytesManyUnchecked ==
    /\ pc = "start"
    /\ \E s \in TypedSlices :
        /\ Borrowed(Call("transmute_to_bytes_many_unchecked", s,
                         transmute_to_bytes_many_unchecked(s, T)), "view")

TransmuteToBytes ==
    /\ pc = "start"
    /\ \E s \in TypedSlices :
        /\ Borrowed(Call("transmute_to_bytes", s, transmute_to_bytes(s, T)), "view")

\* --------------------------------------------------------- caller, owned
\* The caller's own Vec<u8>: len bytes in an allocation of cap bytes.
VecNew ==
    /\ pc = "start"
    /\ \E p \in Addrs, len \in 0 .. MemSize, cap \in 0 .. MemSize :
        /\ len <= cap
        /\ p + cap <= ArenaEnd
        /\ heap' = Alloc(p, Layout(cap, align_of(U8)))
        /\ vec' = Vec_from_raw_parts(U8, p, len, cap)
        /\ log' = Logged(Call("vec_new", <<p, len, cap>>, vec'))
        /\ pc' = "owned"
        /\ UNCHANGED <<mem, T, aligned, written>>

\* tests/test_util/aligned_vec.rs: len bytes in an allocation made as a
\* Vec<T> of aligned_vec_capacity(len, T) elements.
AlignedVec ==
    /\ pc = "start"
    /\ \E p \in Addrs, len \in 0 .. MemSize :
        LET capacity == aligned_vec_capacity(len, T)
        IN  /\ IsAligned(p, T)
            /\ p + capacity * size_of(T) <= ArenaEnd
            /\ heap' = Alloc(p, Layout(capacity * size_of(T), align_of(T)))
            /\ vec' = Vec_from_raw_parts(U8, p, len, capacity * size_of(T))
            /\ log' = Logged(Call("aligned_vec", <<p, len>>, vec'))
            /\ pc' = "owned"
            /\ UNCHANGED <<mem, T, aligned, written>>

\* The caller's own Vec<T>: n elements in an allocation of c elements.
VecNewTyped ==
    /\ pc = "start"
    /\ \E p \in Addrs, n \in 0 .. MemSize, c \in 0 .. MemSize :
        /\ n <= c
        /\ IsAligned(p, T)
        /\ p + c * size_of(T) <= ArenaEnd
        /\ heap' = Alloc(p, Layout(c * size_of(T), align_of(T)))
        /\ vec' = Vec_from_raw_parts(T, p, n, c)
        /\ log' = Logged(Call("vec_new_typed", <<p, n, c>>, vec'))
        /\ pc' = "owned"
        /\ UNCHANGED <<mem, T, aligned, written>>

\* The state after an owned conversion: the buffers dropped inside the call
\* are released, and the caller holds the buffer returned, if any.
Owned(call, r, held) ==
    /\ heap' = DropAll(heap, r.dropped)
    /\ vec' = held
    /\ log' = Logged(call)
    /\ pc' = IF held = NoVec THEN "done" ELSE "owned"
    /\ UNCHANGED <<mem, T, aligned, written>>

TransmuteVec ==
    \E G \in Guards :
        LET r == transmute_vec(vec, T, G)
        IN  /\ pc = "owned"
                /\ vec.elem = U8
            /\ IsAligned(vec.ptr, T)
            /\ Owned([op |-> "transmute_vec", arg |-> vec, guard |-> G,
                      res |-> r.res, dropped |-> r.dropped],
                     r, IF r.res # Panic /\ r.res.ok THEN r.res.val ELSE NoVec)

TransmuteVecPermissive ==
    LET r == transmute_vec_permissive(vec, T)
    IN  /\ pc = "owned"
        /\ vec.elem = U8
        /\ IsAligned(vec.ptr, T)
        /\ Owned([op |-> "transmute_vec_permissive", arg |-> vec,
                  res |-> r.res, dropped |-> r.dropped],
                 r, IF r.res = Panic THEN NoVec ELSE r.res)

TransmuteToBytesVec ==
    LET r == transmute_to_bytes_vec(vec)
    IN  /\ pc = "owned"
        /\ vec.elem = T
        /\ Owned([op |-> "transmute_to_bytes_vec", arg |-> vec,
                  res |-> r.res, dropped |-> r.dropped], r, r.res)

\* The caller lets go of the buffer it holds.
Drop ==
    /\ pc = "owned"
    /\ heap' = DropVec(heap, vec)
    /\ vec' = NoVec
    /\ log' = Logged(Call("drop", vec, Unit))
    /\ pc' = "done"
    /\ UNCHANGED <<mem, T, aligned, written>>

\* ------------------------------------------------------- caller, wrapper
\* The byte stored by `bytes[2] = 5`.
Stored == 5

\* The log while a wrapper is held: the call that made it, and the call.
CheckSliceCall == IF Last(log).op = "check_slice" THEN Last(log) ELSE log[1]
Wrapped(call, next) ==
    /\ log' = <<CheckSliceCall, call>>
    /\ pc' = next
    /\ UNCHANGED <<T, heap, vec>>

AlignedCheckSlice ==
    \E x \in Inputs :
        LET r == check_slice(x, T)
        IN  /\ log' = Logged(Call("check_slice", x, r))
            /\ aligned' = IF r.ok THEN r.val ELSE NoAligned
            /\ pc' = IF r.ok THEN "wrapped" ELSE "done"
            /\ UNCHANGED <<mem, T, heap, vec, written>>

\* A read of the bytes through &*x.
AlignedDeref ==
    /\ pc = "wrapped"
    /\ LET bytes == deref(aligned)
       IN  Wrapped(Call("deref", aligned,
                        [view |-> bytes, read |-> SliceBytes(mem, bytes)]),
                   "wrapped")
    /\ UNCHANGED <<mem, aligned, written>>

\* A store of one byte through &mut *x.
AlignedDerefMut ==
    /\ pc = "wrapped"
    /\ Cardinality(written) < MaxWrites
    /\ LET bytes == deref_mut(aligned)
       IN  \E i \in 0 .. (bytes.len - 1) :
               /\ mem' = [mem EXCEPT ![bytes.ptr + i] = Stored]
               /\ written' = written \cup {bytes.ptr + i}
               /\ Wrapped(Call("deref_mut", aligned,
                               [view |-> bytes, index |-> i]), "wrapped")
    /\ UNCHANGED aligned

AlignedIntoInner ==
    /\ pc = "wrapped"
    /\ Wrapped(Call("into_inner", aligned, into_inner(aligned)), "done")
    /\ aligned' = NoAligned
    /\ UNCHANGED <<mem, written>>

SafeTransmuteMany ==
    /\ pc = "wrapped"
    /\ \E G \in Guards :
        Wrapped([op |-> "safe_transmute_many", arg |-> aligned, guard |-> G,
                 res |-> safe_transmute_many(aligned, G)], "done")
    /\ UNCHANGED <<mem, aligned, written>>

SafeTransmuteManyPermissive ==
    /\ pc = "wrapped"
    /\ Wrapped(Call("safe_transmute_many_permissive", aligned,
                    safe_transmute_many_permissive(aligned)), "done")
    /\ UNCHANGED <<mem, aligned, written>>

\* -------------------------------------------------------- caller, floats
\* The floats the caller passes, as bits: either sign, an exponent of all
\* ones, all ones but the lowest, the highest only or none, and any of the
\* two lowest and the three highest bits of the fraction.
F32s ==
    {sign \cup exp \cup fract :
        sign \in {{}, {31}},
        exp \in {23 .. 30, 24 .. 30, {30}, {}},
        fract \in SUBSET {0, 1, 20, 21, 22}}
F64s ==
    {sign \cup exp \cup fract :
        sign \in {{}, {63}},
        exp \in {52 .. 62, 53 .. 62, {62}, {}},
        fract \in SUBSET {0, 1, 48, 50, 51}}

DesignaliseF32 ==
    /\ pc = "start"
    /\ \E f \in F32s :
        Borrowed(Call("designalise_f32", f, designalise_f32(f)), "done")

DesignaliseF64 ==
    /\ pc = "start"
    /\ \E f \in F64s :
        Borrowed(Call("designalise_f64", f, designalise_f64(f)), "done")

Next ==
    \/ CheckAlignment
    \/ CheckAlignmentOne
    \/ FromBytes
    \/ FromBytesPedantic
    \/ TransmuteMany
    \/ TransmuteManyPermissive
    \/ TransmuteToBytesUnchecked
    \/ TransmuteOneToBytes
    \/ TransmuteToBytesManyUnchecked
    \/ TransmuteToBytes
    \/ VecNew
    \/ AlignedVec
    \/ VecNewTyped
    \/ TransmuteVec
    \/ TransmuteVecPermissive
    \/ TransmuteToBytesVec
    \/ Drop
    \/ AlignedCheckSlice
    \/ AlignedDeref
    \/ AlignedDerefMut
    \/ AlignedIntoInner
    \/ SafeTransmuteMany
    \/ SafeTransmuteManyPermissive
    \/ DesignaliseF32
    \/ DesignaliseF64
    \/ CheckAlign

Spec == Init /\ [][Next]_vars

\* ------------------------------------------- target types of size zero
\* The calls that divide by the element size, for a target type of size
\* zero ((), [u32; 0], ...).
ZeroSizedTypes == [size : {0}, align : Aligns]

InitZeroSized ==
    /\ mem \in Memories
    /\ T \in ZeroSizedTypes
    /\ heap = NoAlloc
    /\ vec = NoVec
    /\ aligned = NoAligned
    /\ written = {}
    /\ log = <<>>
    /\ pc = "start"

NextZeroSized ==
    \/ TransmuteMany
    \/ TransmuteManyPermissive
    \/ VecNew
    \/ TransmuteVec
    \/ TransmuteVecPermissive
    \/ Drop

SpecZeroSized == InitZeroSized /\ [][NextZeroSized]_vars

\* ================================================================== claims
S == size_of(T)
A == align_of(T)

\* What C1 says of one call.
C1_Addr(c) == IF c.op = "check_alignment" THEN c.arg.ptr ELSE c.arg
C1_Holds(c) ==
    c.op \in {"check_alignment", "check_alignment_one"} =>
        LET addr == C1_Addr(c)
            k == addr % A
        IN  /\ S % A = 0
            /\ c.res.ok <=> k = 0
            /\ k > 0 => /\ c.res = Err(UnalignedError(S - k))
                        /\ check_alignment_ptr(addr + (S - k), T) = Ok(Unit)

\* C1: the alignment check (check_alignment, check_alignment_one) returns Ok
\* exactly when addr mod A = 0; when addr mod A = k > 0 it returns
\* UnalignedError with offset = S - k, and the check of addr + (S - k)
\* returns Ok (A divides S for every type).
C1_AlignmentCheck == (\A i \in DOMAIN log : C1_Holds(log[i]))
\* A slice that starts 1 past a 4-aligned address, checked for a type of
\* size 4 and alignment 4, is reported with offset 3.
C1_Witness ==
    /\ log # <<>>
    /\ Last(log).op = "check_alignment"
    /\ T = [size |-> 4, align |-> 4]
    /\ Last(log).arg.ptr % 4 = 1
    /\ Last(log).res = Err(UnalignedError(3))

\* What C2 says of one call.
C2_Holds(c) ==
    c.op \in {"transmute_many_permissive", "transmute_vec_permissive"} =>
        LET L == c.arg.len
            n == L \div S
        IN  /\ c.res # Panic
            /\ c.res.len = n
            /\ TypedBytes(mem, c.res, T) = SubSeq(SliceBytes(mem, c.arg), 1, n * S)
            /\ Range(c.res.ptr, c.res.len * S) = Range(c.arg.ptr, n * S)
            /\ Range(c.res.ptr, c.res.len * S) \cap Range(c.arg.ptr + n * S, L % S) = {}
            /\ mem \in Memories

\* C2: the permissive many operations never fail and return floor(L/S)
\* elements whose bytes are the first floor(L/S)*S bytes of the input, in
\* order; the trailing L mod S bytes are not covered, and the memory is as
\* it was.
C2_PermissiveTruncation == (\A i \in DOMAIN log : C2_Holds(log[i]))
\* A buffer of more than one element with a remainder, viewed permissively.
C2_Witness ==
    /\ log # <<>>
    /\ Last(log).op = "transmute_many_permissive"
    /\ S > 1
    /\ Last(log).arg.len > S
    /\ Last(log).arg.len % S # 0
    /\ Last(log).res.len = Last(log).arg.len \div S

\* What C3 says of one call.
C3_Holds(c) ==
    c.op = "from_bytes_pedantic" =>
        LET L == c.arg.len
        IN  /\ c.res.ok <=> L = S
            /\ L < S => c.res = Err(GuardError(S, L, "NotEnoughBytes"))
            /\ L > S => c.res = Err(GuardError(S, L, "ExcessBytes"))

\* C3: from_bytes_pedantic accepts if and only if L = S; for L < S it
\* rejects with a guard error tagged not-enough-bytes, for L > S with one
\* tagged excess-bytes, both with required = S and actual = L.
C3_ExactSingleValue == (\A i \in DOMAIN log : C3_Holds(log[i]))
\* One byte too many is rejected as excess.
C3_Witness ==
    /\ log # <<>>
    /\ Last(log).op = "from_bytes_pedantic"
    /\ Last(log).arg.len = S + 1
    /\ ~Last(log).res.ok
    /\ Last(log).res.err.reason = "ExcessBytes"

\* What C4 says of one call.
C4_Holds(c) ==
    c.op = "from_bytes" =>
        LET L == c.arg.len
        IN  /\ c.res.ok <=> L >= S
            /\ c.res.ok =>
                /\ c.res.val.value = SubSeq(SliceBytes(mem, c.arg), 1, S)
                /\ c.res.val.touched \subseteq Range(c.arg.ptr, L)
                /\ c.res.val.touched \cap Range(c.arg.ptr + S, L - S) = {}
            /\ L < S => c.res = Err(GuardError(S, L, "NotEnoughBytes"))

\* C4: from_bytes accepts if and only if L >= S; the value it returns is the
\* leading S bytes of the input and the read stays inside the input; for
\* L < S it rejects with not-enough-bytes, required = S, actual = L.
C4_AtLeastSingleValue == (\A i \in DOMAIN log : C4_Holds(log[i]))
\* A value read from a buffer longer than one element.
C4_Witness ==
    /\ log # <<>>
    /\ Last(log).op = "from_bytes"
    /\ S > 1
    /\ Last(log).arg.len > S
    /\ Last(log).res.ok

\* C5: the byte view of a value (transmute_one_to_bytes, of length S) given
\* to from_bytes or to from_bytes_pedantic yields the value's own bytes.
C5_SingleRoundTrip ==
    (/\ Len(log) = 2
     /\ log[1].op \in {"transmute_one_to_bytes", "transmute_to_bytes_unchecked"}
     /\ log[2].op \in {"from_bytes", "from_bytes_pedantic"}
     /\ log[2].arg = log[1].res)
    => /\ log[1].res.len = S
       /\ log[2].res.ok
       /\ log[2].res.val.value = Bytes(mem, log[1].arg, S)
\* A value of more than one byte taken to bytes and back, exactly.
C5_Witness ==
    /\ Len(log) = 2
    /\ log[1].op = "transmute_one_to_bytes"
    /\ log[2].op = "from_bytes_pedantic"
    /\ S > 1
    /\ log[2].res.ok
    /\ log[2].res.val.value = Bytes(mem, log[1].arg, S)

\* The guards that accept a buffer of n whole elements.
C6_Accepts(G, n) ==
    \/ G = "Permissive"
    \/ G \in {"SingleMany", "AllOrNothing"} /\ n >= 1
    \/ G = "SingleValue" /\ n = 1
\* What C6 says of one call.
C6_Forth(c) ==
    (/\ c.op \in {"transmute_vec", "transmute_vec_permissive"}
     /\ c.arg.len % S = 0
     /\ c.arg.cap % S = 0)
    => /\ c.op = "transmute_vec_permissive" => c.res # Panic
       /\ c.op = "transmute_vec" =>
            (c.res.ok <=> C6_Accepts(c.guard, c.arg.len \div S))
       /\ LET X == IF c.op = "transmute_vec" THEN c.res.val ELSE c.res
          IN  (c.op = "transmute_vec" => c.res.ok) =>
                /\ X = Vec_from_raw_parts(T, c.arg.ptr, c.arg.len \div S, c.arg.cap \div S)
                /\ c.dropped = <<>>
C6_Back ==
    (/\ Len(log) = 2
     /\ log[1].op \in {"transmute_vec", "transmute_vec_permissive"}
     /\ log[1].arg.len % S = 0
     /\ log[1].arg.cap % S = 0
     /\ log[2].op = "transmute_to_bytes_vec")
    => /\ log[2].res = log[1].arg
       /\ SliceBytes(mem, log[2].res) = SliceBytes(mem, log[1].arg)
       /\ mem \in Memories
       /\ heap.freed = <<>>
       /\ heap.ptr = log[2].res.ptr

\* C6: an owned byte buffer of length n*S and capacity m*S that transmute_vec
\* accepts (every such buffer under the permissive guard, those of n >= 1
\* under the single-many and all-or-nothing guards, those of n = 1 under the
\* single-value guard) becomes a typed buffer of length n and capacity m over
\* the same allocation, and transmute_to_bytes_vec of that buffer is an owned
\* byte buffer of length n*S and capacity m*S at the same place, with the
\* same bytes.
C6_OwnedRoundTrip == (\A i \in DOMAIN log : C6_Forth(log[i])) /\ C6_Back
\* A buffer of 2 elements in room for 3, of a type of more than one byte,
\* taken to the type and back.
C6_Witness ==
    /\ Len(log) = 2
    /\ log[1].op = "transmute_vec"
    /\ log[2].op = "transmute_to_bytes_vec"
    /\ S > 1
    /\ log[1].arg.len = 2 * S
    /\ log[1].arg.cap = 3 * S
    /\ log[2].arg.len = 2
    /\ log[2].arg.cap = 3
    /\ log[2].res = log[1].arg

\* What C7 says of one call.
C7_Holds(c) ==
    (c.op = "transmute_vec" /\ c.guard = "SingleMany") =>
        LET L == c.arg.len
            n == L \div S
        IN  /\ IsAligned(c.arg.ptr, T)
            /\ L < S => c.res = Err(GuardError(S, L, "NotEnoughBytes"))
            /\ L >= S =>
                /\ c.res.ok
                /\ c.res.val.len = n
                /\ c.res.val.ptr = c.arg.ptr
                /\ TypedBytes(mem, c.res.val, T) = SubSeq(SliceBytes(mem, c.arg), 1, n * S)

\* C7: transmute_vec under the single-many guard on an aligned buffer
\* (guarded_transmute_pod_vec): if L < S it returns the guard error with
\* required = S, actual = L, not-enough-bytes; if L >= S it returns
\* floor(L/S) elements made of the leading floor(L/S)*S bytes.
C7_OwnedSingleMany == (\A i \in DOMAIN log : C7_Holds(log[i]))
\* An aligned_vec buffer of 2 elements and a remainder, converted.
C7_Witness ==
    /\ Len(log) = 2
    /\ log[1].op = "aligned_vec"
    /\ log[2].op = "transmute_vec"
    /\ log[2].guard = "SingleMany"
    /\ S = 2
    /\ log[2].arg.len = 5
    /\ log[2].res.ok
    /\ log[2].res.val.len = 2

\* C8: when the guard rejects in transmute_vec, the error is the guard's
\* diagnostic, no typed buffer is made, the allocation goes to no result
\* buffer and is released at most once (by the byte buffer's drop).
C8_OwnedFailure ==
    /\ Len(heap.freed) <= 1
    /\ (/\ log # <<>>
        /\ Last(log).op = "transmute_vec"
        /\ ~Last(log).res.ok)
       => /\ Last(log).res = check(Last(log).guard, Last(log).arg.len, S)
          /\ Last(log).res.err.tag = "Guard"
          /\ vec = NoVec
          /\ pc = "done"
          /\ Last(log).dropped = <<Last(log).arg>>
          /\ heap.freed = IF Last(log).arg.cap > 0
                          THEN <<Layout(Last(log).arg.cap, 1)>>
                          ELSE <<>>
\* A buffer too short for one element, with room for one, is rejected and
\* released once.
C8_Witness ==
    /\ log # <<>>
    /\ Last(log).op = "transmute_vec"
    /\ ~Last(log).res.ok
    /\ Last(log).arg.cap >= S
    /\ Len(heap.freed) = 1
    /\ vec = NoVec

\* What C9 says of one call.
C9_One(c) ==
    c.op \in {"transmute_one_to_bytes", "transmute_to_bytes_unchecked"} =>
        /\ c.res = [ptr |-> c.arg, len |-> S]
        /\ SliceBytes(mem, c.res) = Index(mem, from_raw_parts(c.arg, 1), T, 0)
        /\ mem \in Memories
C9_Many(c) ==
    c.op \in {"transmute_to_bytes", "transmute_to_bytes_many_unchecked"} =>
        /\ c.res = [ptr |-> c.arg.ptr, len |-> c.arg.len * S]
        /\ \A i \in 0 .. (c.arg.len - 1) :
              SubSeq(SliceBytes(mem, c.res), i * S + 1, (i + 1) * S) = Index(mem, c.arg, T, i)
        /\ mem \in Memories

\* C9: the borrowed typed-to-bytes calls return a byte view that starts at
\* the input's address, has length n*S (n = 1 for a single value) and holds
\* the input's bytes in order; the memory is as it was.
C9_BorrowedToBytes == (\A i \in DOMAIN log : C9_One(log[i])) /\ (\A i \in DOMAIN log : C9_Many(log[i]))
\* Two elements of more than one byte, viewed as bytes.
C9_Witness ==
    /\ log # <<>>
    /\ Last(log).op = "transmute_to_bytes"
    /\ S > 1
    /\ Last(log).arg.len = 2
    /\ Last(log).res.len = 2 * S

\* What C10 says of one call.
C10_Holds(c) ==
    c.op = "transmute_to_bytes_vec" =>
        LET n == c.arg.len
            E == c.arg.elem
        IN  /\ c.res = Vec_from_raw_parts(U8, c.arg.ptr, n * size_of(E), c.arg.cap * size_of(E))
            /\ c.dropped = <<>>
            /\ \A i \in 0 .. (n - 1) :
                  SubSeq(SliceBytes(mem, c.res), i * size_of(E) + 1, (i + 1) * size_of(E))
                      = Index(mem, c.arg, E, i)

\* C10: transmute_to_bytes_vec never fails and returns an owned byte buffer
\* over the same allocation, of length n*S and capacity c*S, whose first n*S
\* bytes are the elements' bytes in order; the source buffer is not released
\* by the call, for any alignment of the element type.
C10_OwnedToBytes ==
    /\ (\A i \in DOMAIN log : C10_Holds(log[i]))
    /\ (log # <<>> /\ Last(log).op = "transmute_to_bytes_vec")
       => /\ vec = Last(log).res
          /\ heap.freed = <<>>
          /\ heap.ptr = vec.ptr
\* A buffer of a type of alignment 2, with room to spare, taken to bytes.
C10_Witness ==
    /\ Len(log) = 2
    /\ log[1].op = "vec_new_typed"
    /\ log[2].op = "transmute_to_bytes_vec"
    /\ A > 1
    /\ log[2].arg.len >= 1
    /\ log[2].arg.cap > log[2].arg.len
    /\ log[2].res.cap = log[2].arg.cap * S
    /\ vec = log[2].res

\* What C11 says of the call that makes a wrapper.
C11_CheckSlice(c) ==
    c.op = "check_slice" =>
        /\ c.res.ok <=> c.arg.ptr % A = 0
        /\ ~c.res.ok => c.res = check_alignment(c.arg, T)
        /\ c.res.ok => /\ deref(c.res.val) = c.arg
                       /\ deref_mut(c.res.val) = c.arg
                       /\ into_inner(c.res.val) = c.arg
\* What C11 says of a call on a wrapper: x is the buffer the wrapper was made
\* of.
C11_Use(c, x) ==
    /\ c.op \in {"deref", "deref_mut"} => c.res.view = x
    /\ c.op = "deref" => c.res.read = SliceBytes(mem, x)
    /\ c.op = "into_inner" => c.res = x
    /\ c.op \in {"safe_transmute_many", "safe_transmute_many_permissive"} =>
          /\ deref(c.arg) = x
          /\ c.res # Panic
          /\ LET view == IF c.op = "safe_transmute_many_permissive"
                         THEN Ok(c.res) ELSE c.res
             IN  view.ok => /\ view.val.ptr = x.ptr
                            /\ view.val.ptr % A = 0

\* C11: Aligned::check_slice(x) for the target type is Ok exactly when x
\* starts at an address aligned for the type, and otherwise the error of
\* check_alignment; the wrapper's deref, deref_mut and into_inner give x
\* itself; after reads and writes through the wrapper it still holds x, at
\* the same address and of the same length, and every typed view of
\* safe_transmute_many and safe_transmute_many_permissive starts at x's
\* address, which is aligned for the type.
C11_AlignedWrapper ==
    /\ \A i \in DOMAIN log : C11_CheckSlice(log[i])
    /\ pc = "wrapped" =>
          /\ into_inner(aligned) = CheckSliceCall.arg
          /\ IsAligned(deref(aligned).ptr, T)
    /\ (Len(log) = 2 /\ log[1].op = "check_slice") =>
          C11_Use(log[2], log[1].arg)
\* A wrapper of more than one element of a type aligned to more than one
\* byte, written through and then viewed as the type.
C11_Witness ==
    /\ Len(log) = 2
    /\ log[1].op = "check_slice"
    /\ log[2].op = "safe_transmute_many"
    /\ log[2].res.ok
    /\ log[2].res.val.len > 1
    /\ written # {}
    /\ A > 1

\* What C12 says of one call: for a target type of size zero the guard
\* rejects, and the call returns the rejection.
C12_Holds(c) ==
    (c.op \in {"transmute_many", "transmute_vec"} /\ S = 0) =>
        /\ ~check(c.guard, c.arg.len, S).ok
        /\ c.res = check(c.guard, c.arg.len, S)
C12_Permissive(c) ==
    (c.op \in {"transmute_many_permissive", "transmute_vec_permissive"} /\ S = 0) =>
        ~check("Permissive", c.arg.len, S).ok

\* C12: every guard returns an accept or a reject for every byte count and
\* element size, and for a target type of size zero every guard, the
\* permissive one too, rejects, so that no many or owned call divides by a
\* zero element size.
C12_ZeroSizeRejected ==
    /\ \A G \in Guards, len \in 0 .. MemSize, size \in 0 .. MaxSize :
          check(G, len, size).ok \in BOOLEAN
    /\ \A i \in DOMAIN log : C12_Holds(log[i]) /\ C12_Permissive(log[i])

\* The parts of a 64-bit float's bits.
C13_Exponent == 52 .. 62
C13_Fraction == 0 .. 51
C13_IsNaN(f) == C13_Exponent \subseteq f /\ f \cap C13_Fraction # {}
C13_IsSignaling(f) == C13_IsNaN(f) /\ 51 \notin f
C13_IsQuiet(f) == C13_Exponent \subseteq f /\ 51 \in f
C13_Holds(c) ==
    c.op = "designalise_f64" =>
        /\ C13_IsSignaling(c.arg) => C13_IsQuiet(c.res)
        /\ ~C13_IsNaN(c.arg) => c.res = c.arg

\* C13: designalise_f64 turns every signaling NaN (the 11 exponent bits set,
\* a fraction other than 0, bit 51 clear) into a quiet NaN (the exponent
\* bits set and bit 51 set), and returns every float that is not a NaN with
\* the same bits.
C13_QuietF64 == \A i \in DOMAIN log : C13_Holds(log[i])

\* The parts of a 32-bit float's bits.
C14_Exponent == 23 .. 30
C14_Fraction == 0 .. 22
C14_IsNaN(f) == C14_Exponent \subseteq f /\ f \cap C14_Fraction # {}
C14_IsSignaling(f) == C14_IsNaN(f) /\ 22 \notin f
C14_Holds(c) ==
    c.op = "designalise_f32" =>
        /\ C14_IsSignaling(c.arg) => /\ C14_Exponent \subseteq c.res
                                     /\ 22 \in c.res
                                     /\ c.res \ {22} = c.arg
        /\ ~C14_IsNaN(c.arg) => c.res = c.arg
        /\ designalise_f32(c.res) = c.res

\* C14: designalise_f32 turns every signaling NaN (the 8 exponent bits set,
\* a fraction other than 0, bit 22 clear) into a quiet NaN with bit 22 set
\* and every other bit as it was, returns every float that is not a NaN
\* with the same bits, and applied to its own result returns that result.
C14_QuietF32 == \A i \in DOMAIN log : C14_Holds(log[i])
\* A negative signaling NaN of more than one fraction bit was made quiet.
C14_Witness ==
    /\ log # <<>>
    /\ Last(log).op = "designalise_f32"
    /\ C14_IsSignaling(Last(log).arg)
    /\ {0, 21, 31} \subseteq Last(log).arg
    /\ Last(log).res # Last(log).arg

\* What C15 says of one call: N is the count reported for addr.
C15_Smallest(addr, N) ==
    /\ N >= 0
    /\ (addr + N) % A = 0
    /\ \A n \in 0 .. (N - 1) : (addr + n) % A # 0
C15_Holds(c) ==
    (c.op \in {"check_alignment", "check_alignment_one"} /\ ~c.res.ok) =>
        /\ S % A = 0
        /\ C15_Smallest(C1_Addr(c), c.res.err.offset)

\* C15: whenever check_alignment or check_alignment_one reports
\* UnalignedError{offset: N} for an address and a type of alignment A and
\* size S (a multiple of A, larger than A or not), N is the smallest
\* non-negative integer with (address + N) mod A = 0.
C15_SmallestDiscard == \A i \in DOMAIN log : C15_Holds(log[i])

\* What C16 says of one call.
C16_Result(c) == IF c.op \in {"transmute_many", "transmute_vec"} THEN c.res ELSE Ok(c.res)
C16_Holds(c) ==
    (/\ c.op \in {"transmute_many", "transmute_many_permissive",
                  "transmute_vec", "transmute_vec_permissive"}
     /\ S > 0
     /\ c.res # Panic
     /\ C16_Result(c).ok) =>
        LET r == C16_Result(c).val
        IN  /\ r.len * S <= c.arg.len
            /\ c.op \in {"transmute_vec", "transmute_vec_permissive"} =>
                  /\ c.arg.len <= c.arg.cap
                  /\ r.cap * S <= c.arg.cap
                  /\ r.len <= r.cap

\* C16: for every guard and every element size S > 0, when transmute_many or
\* transmute_vec succeeds on a buffer of length L (and capacity C >= L) with
\* n elements (and capacity c), n*S <= L, c*S <= C and n <= c.
C16_InsideSource == \A i \in DOMAIN log : C16_Holds(log[i])
\* An owned buffer whose length and capacity are not multiples of the
\* element size, with spare capacity, accepted with at least one element.
C16_Witness ==
    /\ log # <<>>
    /\ Last(log).op = "transmute_vec"
    /\ Last(log).res.ok
    /\ Last(log).res.val.len >= 1
    /\ Last(log).arg.len % S # 0
    /\ Last(log).arg.cap % S # 0
    /\ Last(log).arg.cap - Last(log).arg.len >= S

\* What C17 says of one call.
C17_Holds(c) ==
    (/\ c.op \in {"transmute_vec", "transmute_vec_permissive"}
     /\ c.res # Panic
     /\ C16_Result(c).ok) =>
        C16_Result(c).val.cap * S = c.arg.cap
\* The typed buffer's drop releases what was allocated.
C17_Released ==
    (/\ Len(log) = 2
     /\ log[1].op \in {"transmute_vec", "transmute_vec_permissive"}
     /\ log[1].res # Panic
     /\ C16_Result(log[1]).ok
     /\ log[2].op = "drop"
     /\ heap.layout.size > 0) =>
        /\ Len(heap.freed) = 1
        /\ heap.freed[1].size = heap.layout.size

\* C17: for every owned byte buffer of capacity C that transmute_vec
\* accepts, whether C is a multiple of the element size S or not, the typed
\* buffer's capacity c has c*S = C, so that dropping the typed buffer
\* releases as many bytes as were allocated.
C17_AllocationSize == (\A i \in DOMAIN log : C17_Holds(log[i])) /\ C17_Released

\* What C18 says of one call.
C18_Holds(c) ==
    c.op = "check_align" =>
        LET k == c.arg.ptr % A
            r == check_alignment(c.arg, T)
        IN  /\ c.res.ok <=> k = 0
            /\ k # 0 => /\ c.res = Err(Unaligned(A - k))
                        /\ c.res.err.offset \in 1 .. (A - 1)
                        /\ (c.arg.ptr + c.res.err.offset) % A = 0
            /\ r.ok <=> c.res.ok
            /\ ~r.ok => r.err.offset = c.res.err.offset

\* C18: util::check_align for a type of alignment A is Ok when the slice's
\* address is a multiple of A and otherwise Err(Unaligned{offset}) with
\* offset = A - (address mod A), which is in 1..A-1 and makes address +
\* offset a multiple of A; and it reports what align::check_alignment
\* reports for the same address and type: aligned, or the same count.
C18_CheckAlign == \A i \in DOMAIN log : C18_Holds(log[i])

=============================================================================
